---- MODULE Spec2Model ----
(***************************************************************************)
(* git-qsync: export a git branch as a bundle, move it across a VM         *)
(* boundary, import it in the destination repository.                      *)
(*                                                                         *)
(* The model follows src/src/import.rs and src/src/export.rs step by step: *)
(* one action per external command, prompt or decision of `run`.  The      *)
(* version-control system is modelled by what its commands do to the refs, *)
(* to HEAD and to the object store.                                        *)
(***************************************************************************)
EXTENDS Naturals, Sequences, FiniteSets, TLC

(* ------------------------------------------------------------------ *)
(* Bounds                                                              *)
(* ------------------------------------------------------------------ *)

\* number of commits of the universe of commits
NumCommits == 4

Commits == 1..NumCommits

\* entries of the incoming directory
MaxEntries == 2

\* distinct modification times of the files in the incoming directory
MaxMtime == 2

\* import invocations in a row
MaxRuns == 2

\* the histories walked hold up to this many commits, or a number of commits
\* that differs from the cap of the walk by up to this many
WalkSlack == 15

\* "no commit": an absent ref, an absent merge base
NoCommit == 0

VARIABLES
    parents,      \* the commit graph: commit -> sequence of its parents (first parent first)
    \* ---- the importing repository and one `import` invocation
    branches,     \* refs/heads/*: short branch name -> commit
    head,         \* HEAD: [sym, name, commit]
    objs,         \* commits present in the object store
    originHead,   \* target of refs/remotes/origin/HEAD when it is symbolic, "" when absent
    sourceVm,     \* git config qsync.source-vm: [set, value]
    bundleArg,    \* TRUE when a bundle path was given on the command line
    incoming,     \* the incoming directory: [exists, entries]
    bundle,       \* the bundle file found at bundle_path
    pc,           \* position in import::run
    result,       \* "" while running, "ok", or the error message
    branchName,   \* branch_name
    finalName,    \* final_branch_name
    branchExists, \* branch_exists
    tempCreated,  \* temp_branch_created ("" for None)
    bundlePath,   \* bundle_path: 0 for the path given, else index into incoming.entries
    loopIdx,      \* position of the switch-away loop in the sorted list of local branches
    log,          \* commands and prompts issued so far
    branches0,    \* refs/heads/* when the invocation started
    head0,        \* HEAD when the invocation started
    run,          \* number of this import invocation (1 for the first)
    prevPath,     \* bundle_path of the invocation before this one
    \* ---- the exporting repository and one `export` invocation
    sRefs,        \* full ref name -> commit (refs/heads/*, refs/remotes/origin/*)
    sOriginHead,  \* target of the symbolic ref refs/remotes/origin/HEAD, "" when absent
    sHead,        \* HEAD of the exporting repository
    exportArg,    \* the branch argument ("" when none was given)
    epc,          \* position in export::run
    eresult,      \* "" while running, "ok", or the error message
    eBranch,      \* branch_name
    eDefault,     \* default_branch
    eFull,        \* TRUE when the whole history is exported
    eBase,        \* merge_base (NoCommit when none was computed)
    eCount,       \* commit_count as reported
    outBundle,    \* the bundle written by `git bundle create`
    elog,         \* external commands issued by export
    \* ---- one commit walk of get_branch_info or get_range_info
    walkKind,     \* "branch" for get_branch_info, "range" for get_range_info
    walkLen,      \* number of commits the revision walk yields, newest first
    walkPc,       \* "start", "done", or "idle" when no walk is looked at
    walkOut       \* the returned (count, first_sha): [count, first], the k-th
                  \* commit the walk yields being named k

importVars == <<branches, head, objs, originHead, sourceVm, bundleArg, incoming,
                bundle, pc, result, branchName, finalName, branchExists,
                tempCreated, bundlePath, loopIdx, log, branches0, head0,
                run, prevPath>>

exportVars == <<sRefs, sOriginHead, sHead, exportArg, epc, eresult, eBranch,
                eDefault, eFull, eBase, eCount, outBundle, elog,
                walkKind, walkLen, walkPc, walkOut>>

vars == <<parents, importVars, exportVars>>

(* ------------------------------------------------------------------ *)
(* Strings                                                             *)
(* ------------------------------------------------------------------ *)

HasPrefix(s, p) == Len(s) >= Len(p) /\ SubSeq(s, 1, Len(p)) = p

\* str::strip_prefix(p).unwrap_or(s)
StripPrefixOr(s, p) == IF HasPrefix(s, p) THEN SubSeq(s, Len(p) + 1, Len(s)) ELSE s

(* ------------------------------------------------------------------ *)
(* The commit graph                                                    *)
(* ------------------------------------------------------------------ *)

RECURSIVE ReachIn(_, _)
\* commits reachable from c (c included) in graph g
ReachIn(g, c) ==
    IF c = NoCommit THEN {}
    ELSE {c} \cup UNION { ReachIn(g, g[c][i]) : i \in 1..Len(g[c]) }

Reach(c) == ReachIn(parents, c)

IsAncestor(a, b) == a \in Reach(b)

(* ------------------------------------------------------------------ *)
(* The importing repository as git sees it                             *)
(* ------------------------------------------------------------------ *)

\* refs/heads/<n> exists
Exists(n) == n \in DOMAIN branches

TipOf(n) == IF Exists(n) THEN branches[n] ELSE NoCommit

SetBranch(n, c) == [m \in DOMAIN branches \cup {n} |-> IF m = n THEN c ELSE branches[m]]

RemoveBranch(n) == [m \in DOMAIN branches \ {n} |-> branches[m]]

OnBranch(n) == [sym |-> TRUE, name |-> n, commit |-> NoCommit]

Detached(c) == [sym |-> FALSE, name |-> "", commit |-> c]

\* the commit HEAD resolves to (NoCommit when HEAD is unborn)
HeadCommit == IF head.sym THEN TipOf(head.name) ELSE head.commit

\* HEAD is a symbolic ref to refs/heads/<n> (born or unborn)
CheckedOut(n) == head.sym /\ head.name = n

\* local branches in the order the ref store iterates them (sorted by name)
SortedNames == <<"develop", "feature", "import-feature", "main",
                 "temp-before-import-feature">>

LocalNames == { SortedNames[i] : i \in 1..Len(SortedNames) }

\* `git bundle verify`: the bundle is intact and its prerequisites are present
BundleVerifies == ~bundle.corrupt /\ bundle.prereq \subseteq objs

\* `git checkout <n>` can succeed: n is a local branch
CanCheckout(n) == Exists(n)

\* `git branch -D <n>` can succeed: n exists and is not the checked-out branch
CanDelete(n) == Exists(n) /\ ~CheckedOut(n)

\* `git checkout -b <n> HEAD~1` can succeed: n is free and HEAD has a first parent
CanCheckoutParent(n) ==
    /\ ~Exists(n)
    /\ HeadCommit # NoCommit
    /\ Len(parents[HeadCommit]) > 0

\* `git checkout --orphan <n>` can succeed: n is free
CanCheckoutOrphan(n) == ~Exists(n)

\* `git fetch <bundle> refs/heads/<src>:refs/heads/<dst>` can succeed: the bundle
\* verifies and carries the source ref, the destination is not the checked-out
\* branch, and an existing destination is only fast-forwarded (no `+` in the refspec)
CanFetch(src, dst) ==
    /\ BundleVerifies
    /\ bundle.ref = "refs/heads/" \o src
    /\ ~CheckedOut(dst)
    /\ Exists(dst) => IsAncestor(branches[dst], bundle.tip)

(* ------------------------------------------------------------------ *)
(* import: pure helpers                                                *)
(* ------------------------------------------------------------------ *)

\* run, lines 18-23: the directory the bundles of source_vm arrive in
IncomingPath(vm) == "~/QubesIncoming/" \o vm \o "/git-qsync/project"

\* a configuration key that is not set, and one set to v
Unset == [set |-> FALSE, value |-> ""]

Setting(v) == [set |-> TRUE, value |-> v]

\* a lookup that takes an empty value for a source VM
GetSourceVmAcceptEmpty == IF ~sourceVm.set THEN [ok |-> FALSE, value |-> ""]
                          ELSE [ok |-> TRUE, value |-> sourceVm.value]

\* Config::load + get_source_vm: the key is missing when unset or empty
GetSourceVm == IF ~sourceVm.set \/ sourceVm.value = "" THEN [ok |-> FALSE, value |-> ""]
               ELSE [ok |-> TRUE, value |-> sourceVm.value]

\* candidates of a discovery that does not look at the kind of the entry
BundleEntriesAnyKind(dir) ==
    { i \in 1..Len(dir.entries) : dir.entries[i].ext = "bundle" }

\* indices of the regular files with extension "bundle", in read_dir order
BundleEntries(dir) ==
    { i \in 1..Len(dir.entries) : dir.entries[i].file /\ dir.entries[i].ext = "bundle" }

\* a discovery whose choice among files of equal modification time changes from
\* one invocation to the next
FindLatestBundleUnstable(dir) ==
    IF ~dir.exists \/ BundleEntries(dir) = {} THEN 0
    ELSE LET newest == { i \in BundleEntries(dir) :
                           \A j \in BundleEntries(dir) :
                               dir.entries[j].mtime <= dir.entries[i].mtime }
         IN  IF run = 1 THEN CHOOSE i \in newest : \A j \in newest : j <= i
             ELSE CHOOSE i \in newest : \A j \in newest : i <= j

\* find_latest_bundle: 0 when the directory is absent or holds no bundle; else the
\* first element after a stable sort by modification time followed by reverse(),
\* which is the last listed entry among those of greatest modification time
FindLatestBundle(dir) ==
    IF ~dir.exists \/ BundleEntries(dir) = {} THEN 0
    ELSE LET newest == { i \in BundleEntries(dir) :
                           \A j \in BundleEntries(dir) :
                               dir.entries[j].mtime <= dir.entries[i].mtime }
         IN  CHOOSE i \in newest : \A j \in newest : j <= i

\* extract_branch_name: the second field of the first line of list-heads, with
\* one leading "refs/heads/" removed
ExtractBranchName(b) == StripPrefixOr(b.ref, "refs/heads/")

\* get_default_branch (import.rs): the branch refs/remotes/origin/HEAD points at,
\* "" (None) when there is no such symbolic ref under refs/remotes/origin/
GetDefaultBranch ==
    IF originHead # "" /\ HasPrefix(originHead, "refs/remotes/origin/")
    THEN StripPrefixOr(originHead, "refs/remotes/origin/")
    ELSE ""

\* a resolver that gives the empty name for a detached HEAD
GetCurrentBranchOrEmpty ==
    IF head.sym THEN [ok |-> TRUE, name |-> StripPrefixOr("refs/heads/" \o head.name, "refs/heads/")]
    ELSE [ok |-> TRUE, name |-> ""]

\* get_current_branch (import.rs): referent_name() is None only for a detached HEAD
GetCurrentBranch ==
    IF head.sym THEN [ok |-> TRUE, name |-> StripPrefixOr("refs/heads/" \o head.name, "refs/heads/")]
    ELSE [ok |-> FALSE, name |-> ""]

\* a rename arm that keeps the name of the bundle's branch
ConflictNameSame(selection, name) == name

\* handle_branch_conflict: the name to import under for selection 0 and 1
ConflictName(selection, name) ==
    IF selection = 0 THEN name ELSE "import-" \o name

\* a cancel arm that never bails
IsCancelNever(selection) == FALSE

\* handle_branch_conflict, line 407: the third option bails
IsCancel(selection) == selection = 2

\* run, line 50: the existing branch is deleted before the fetch
NeedsDelete(exists, final, name) == exists /\ final = name

TempBranchName(name) == "temp-before-import-" \o name

(* ------------------------------------------------------------------ *)
(* import: steps of run                                                *)
(* ------------------------------------------------------------------ *)

inputVars == <<parents, originHead, sourceVm, bundleArg, incoming, bundle,
               branches0, head0, run, prevPath, exportVars>>

repoVars == <<branches, head, objs>>

localVars == <<branchName, finalName, branchExists, tempCreated, bundlePath, loopIdx>>

Goto(p) == pc' = p /\ result' = result

Fail(msg) == pc' = "done" /\ result' = msg

Logged(c, a, o) == log' = Append(log, [cmd |-> c, arg |-> a, ok |-> o])

\* run, lines 9-13: the configuration is read before the bundle argument is looked at
LoadConfig ==
    /\ pc = "start"
    /\ IF GetSourceVm.ok THEN Goto("find")
       ELSE Fail("Configuration missing: qsync.source-vm")
    /\ UNCHANGED <<inputVars, repoVars, localVars, log>>

\* run, lines 15-28
FindBundle ==
    /\ pc = "find"
    /\ IF bundleArg
       THEN Goto("verify") /\ bundlePath' = 0
       ELSE IF FindLatestBundle(incoming) = 0
            THEN Fail("No bundle files found in " \o IncomingPath(GetSourceVm.value))
                 /\ bundlePath' = bundlePath
            ELSE Goto("verify") /\ bundlePath' = FindLatestBundle(incoming)
    /\ UNCHANGED <<inputVars, repoVars, branchName, finalName, branchExists,
                   tempCreated, loopIdx, log>>

\* verification whose failure is not propagated
VerifyBundleNoBail ==
    /\ pc = "verify"
    /\ Logged("bundle verify", "", BundleVerifies)
    /\ Goto("list_heads")
    /\ UNCHANGED <<inputVars, repoVars, localVars>>

\* verify_bundle
VerifyBundle ==
    /\ pc = "verify"
    /\ Logged("bundle verify", "", BundleVerifies)
    /\ IF BundleVerifies THEN Goto("list_heads")
       ELSE Fail("Bundle verification failed")
    /\ UNCHANGED <<inputVars, repoVars, localVars>>

\* extract_branch_name
ListHeads ==
    /\ pc = "list_heads"
    /\ \E ok \in BOOLEAN :
        /\ Logged("bundle list-heads", "", ok)
        /\ IF ok
           THEN Goto("check_exists") /\ branchName' = ExtractBranchName(bundle)
           ELSE Fail("Git command failed: Failed to list bundle heads")
                /\ branchName' = branchName
    /\ UNCHANGED <<inputVars, repoVars, finalName, branchExists, tempCreated,
                   bundlePath, loopIdx>>

\* a check that sends every import to the conflict prompt
CheckBranchExistsAlwaysPrompts ==
    /\ pc = "check_exists"
    /\ branchExists' = TRUE
    /\ Goto("conflict")
    /\ UNCHANGED <<inputVars, repoVars, branchName, finalName, tempCreated,
                   bundlePath, loopIdx, log>>

\* run, lines 41-47 without a conflict
CheckBranchExists ==
    /\ pc = "check_exists"
    /\ branchExists' = Exists(branchName)
    /\ IF Exists(branchName)
       THEN Goto("conflict") /\ finalName' = finalName
       ELSE Goto("import") /\ finalName' = branchName
    /\ UNCHANGED <<inputVars, repoVars, branchName, tempCreated, bundlePath,
                   loopIdx, log>>

\* the three options of the Select prompt, in the order they are offered
Options == <<"overwrite", "rename", "cancel">>

\* handle_branch_conflict, then run line 50
HandleBranchConflict ==
    /\ pc = "conflict"
    /\ \/ \E selection \in 0..2 :
            /\ Logged("select", Options[selection + 1], TRUE)
            /\ IF IsCancel(selection)
               THEN Fail("Cancelled by user") /\ finalName' = finalName
               ELSE /\ finalName' = ConflictName(selection, branchName)
                    /\ IF NeedsDelete(branchExists, ConflictName(selection, branchName), branchName)
                       THEN Goto("ds_current")
                       ELSE Goto("import")
       \/ \* interact() fails (no terminal)
          /\ Logged("select", "", FALSE)
          /\ Fail("IO error")
          /\ finalName' = finalName
    /\ UNCHANGED <<inputVars, repoVars, branchName, branchExists, tempCreated,
                   bundlePath, loopIdx>>

(* ---- delete_branch_safely ---- *)

\* a test that never finds the branch checked out
IsBranchCheckedOutNever ==
    /\ pc = "ds_current"
    /\ IF ~GetCurrentBranch.ok THEN Fail("HEAD is detached, not on a branch")
       ELSE Goto("ds_delete")
    /\ UNCHANGED <<inputVars, repoVars, localVars, log>>

\* line 198: is_branch_checked_out
IsBranchCheckedOut ==
    /\ pc = "ds_current"
    /\ IF ~GetCurrentBranch.ok THEN Fail("HEAD is detached, not on a branch")
       ELSE IF GetCurrentBranch.name = finalName THEN Goto("ds_default")
       ELSE Goto("ds_delete")
    /\ UNCHANGED <<inputVars, repoVars, localVars, log>>

\* a detour that never tries the default branch
SwitchToDefaultSkipped ==
    /\ pc = "ds_default"
    /\ Goto("ds_loop")
    /\ loopIdx' = 0
    /\ UNCHANGED <<inputVars, repoVars, branchName, finalName, branchExists,
                   tempCreated, bundlePath, log>>

\* lines 210-223: try the branch origin/HEAD names
SwitchToDefault ==
    /\ pc = "ds_default"
    /\ LET d == GetDefaultBranch IN
       IF d # "" /\ Exists(d) /\ d # finalName
       THEN \E ok \in BOOLEAN :
              /\ ok => CanCheckout(d)
              /\ Logged("checkout", d, ok)
              /\ IF ok THEN head' = OnBranch(d) /\ Goto("ds_delete")
                 ELSE head' = head /\ Goto("ds_loop")
       ELSE Goto("ds_loop") /\ UNCHANGED <<head, log>>
    /\ loopIdx' = 0
    /\ UNCHANGED <<inputVars, branches, objs, branchName, finalName, branchExists,
                   tempCreated, bundlePath>>

\* the local branches the loop has not visited yet
LoopRest == { i \in 1..Len(SortedNames) : i > loopIdx /\ Exists(SortedNames[i]) }

\* lines 225-248: one iteration of the loop over the local branches
SwitchToOther ==
    /\ pc = "ds_loop"
    /\ IF LoopRest = {}
       THEN Goto("ds_stale") /\ UNCHANGED <<head, log, loopIdx>>
       ELSE LET i == CHOOSE k \in LoopRest : \A j \in LoopRest : k <= j
                other == SortedNames[i]
            IN  /\ loopIdx' = i
                /\ IF other # finalName /\ other # ""
                   THEN \E ok \in BOOLEAN :
                          /\ ok => CanCheckout(other)
                          /\ Logged("checkout", other, ok)
                          /\ IF ok THEN head' = OnBranch(other) /\ Goto("ds_delete")
                             ELSE head' = head /\ Goto("ds_loop")
                   ELSE Goto("ds_loop") /\ UNCHANGED <<head, log>>
    /\ UNCHANGED <<inputVars, branches, objs, branchName, finalName, branchExists,
                   tempCreated, bundlePath>>

\* lines 250-266: a temporary branch left by an earlier import is deleted
DeleteStaleTemp ==
    /\ pc = "ds_stale"
    /\ LET t == TempBranchName(finalName) IN
       IF Exists(t)
       THEN \E ok \in BOOLEAN :
              /\ ok => CanDelete(t)
              /\ Logged("branch -D", t, ok)
              /\ IF ok THEN branches' = RemoveBranch(t) /\ Goto("ds_parent")
                 ELSE branches' = branches
                      /\ Fail("Failed to delete existing temporary branch")
       ELSE Goto("ds_parent") /\ UNCHANGED <<branches, log>>
    /\ UNCHANGED <<inputVars, head, objs, localVars>>

\* lines 268-273, 291-295: git checkout -b <temp> HEAD~1
CheckoutTempParent ==
    /\ pc = "ds_parent"
    /\ LET t == TempBranchName(finalName) IN
       \E ok \in BOOLEAN :
          /\ ok => CanCheckoutParent(t)
          /\ Logged("checkout -b", t, ok)
          /\ IF ok
             THEN /\ branches' = SetBranch(t, parents[HeadCommit][1])
                  /\ head' = OnBranch(t)
                  /\ tempCreated' = t
                  /\ Goto("ds_delete")
             ELSE /\ UNCHANGED <<branches, head, tempCreated>>
                  /\ Goto("ds_orphan")
    /\ UNCHANGED <<inputVars, objs, branchName, finalName, branchExists,
                   bundlePath, loopIdx>>

\* lines 274-287: git checkout --orphan <temp>
CheckoutOrphan ==
    /\ pc = "ds_orphan"
    /\ LET t == TempBranchName(finalName) IN
       \E ok \in BOOLEAN :
          /\ ok => CanCheckoutOrphan(t)
          /\ Logged("checkout --orphan", t, ok)
          /\ IF ok
             THEN head' = OnBranch(t) /\ Goto("ds_reset")
             ELSE head' = head /\ Fail("Cannot switch away from branch")
    /\ UNCHANGED <<inputVars, branches, objs, localVars>>

\* lines 288-295: git reset --hard, its result ignored
ResetHard ==
    /\ pc = "ds_reset"
    /\ \E ok \in BOOLEAN : Logged("reset --hard", "", ok)
    /\ tempCreated' = TempBranchName(finalName)
    /\ Goto("ds_delete")
    /\ UNCHANGED <<inputVars, repoVars, branchName, finalName, branchExists,
                   bundlePath, loopIdx>>

\* a delete whose failure is not propagated
DeleteBranchNoBail ==
    /\ pc = "ds_delete"
    /\ \E ok \in BOOLEAN :
          /\ ok => CanDelete(finalName)
          /\ Logged("branch -D", finalName, ok)
          /\ branches' = IF ok THEN RemoveBranch(finalName) ELSE branches
          /\ Goto("import")
    /\ UNCHANGED <<inputVars, head, objs, localVars>>

\* lines 306-315: git branch -D <branch>
DeleteBranch ==
    /\ pc = "ds_delete"
    /\ \E ok \in BOOLEAN :
          /\ ok => CanDelete(finalName)
          /\ Logged("branch -D", finalName, ok)
          /\ IF ok THEN branches' = RemoveBranch(finalName) /\ Goto("import")
             ELSE branches' = branches /\ Fail("Failed to delete branch")
    /\ UNCHANGED <<inputVars, head, objs, localVars>>

(* ---- the rest of run ---- *)

\* import_bundle
ImportBundle ==
    /\ pc = "import"
    /\ \E ok \in BOOLEAN :
          /\ ok => CanFetch(branchName, finalName)
          /\ Logged("fetch", finalName, ok)
          /\ IF ok
             THEN /\ branches' = SetBranch(finalName, bundle.tip)
                  /\ objs' = objs \cup Reach(bundle.tip)
                  /\ Goto("switch")
             ELSE /\ UNCHANGED <<branches, objs>>
                  /\ Fail("Git command failed: Failed to import bundle")
    /\ UNCHANGED <<inputVars, head, localVars>>

\* switch_to_branch
SwitchToBranch ==
    /\ pc = "switch"
    /\ \E ok \in BOOLEAN :
          /\ ok => CanCheckout(finalName)
          /\ Logged("checkout", finalName, ok)
          /\ IF ok
             THEN /\ head' = OnBranch(finalName)
                  /\ IF tempCreated # "" THEN Goto("cleanup")
                     ELSE pc' = "done" /\ result' = "ok"
             ELSE head' = head /\ Fail("Failed to switch to branch")
    /\ UNCHANGED <<inputVars, branches, objs, localVars>>

\* a clean-up whose failed delete fails the import
CleanupTempBranchStrict ==
    /\ pc = "cleanup"
    /\ IF Exists(tempCreated)
       THEN \E ok \in BOOLEAN :
              /\ ok => CanDelete(tempCreated)
              /\ Logged("branch -D", tempCreated, ok)
              /\ branches' = IF ok THEN RemoveBranch(tempCreated) ELSE branches
              /\ pc' = "done"
              /\ result' = IF ok THEN "ok" ELSE "Failed to clean up temporary branch"
       ELSE pc' = "done" /\ result' = "ok" /\ UNCHANGED <<branches, log>>
    /\ UNCHANGED <<inputVars, head, objs, localVars>>

\* cleanup_temp_branch: a failed delete is only a warning
CleanupTempBranch ==
    /\ pc = "cleanup"
    /\ IF Exists(tempCreated)
       THEN \E ok \in BOOLEAN :
              /\ ok => CanDelete(tempCreated)
              /\ Logged("branch -D", tempCreated, ok)
              /\ branches' = IF ok THEN RemoveBranch(tempCreated) ELSE branches
       ELSE UNCHANGED <<branches, log>>
    /\ pc' = "done"
    /\ result' = "ok"
    /\ UNCHANGED <<inputVars, head, objs, localVars>>

ImportNext ==
    \/ LoadConfig
    \/ FindBundle
    \/ VerifyBundle
    \/ ListHeads
    \/ CheckBranchExists
    \/ HandleBranchConflict
    \/ IsBranchCheckedOut
    \/ SwitchToDefault
    \/ SwitchToOther
    \/ DeleteStaleTemp
    \/ CheckoutTempParent
    \/ CheckoutOrphan
    \/ ResetHard
    \/ DeleteBranch
    \/ ImportBundle
    \/ SwitchToBranch
    \/ CleanupTempBranch

(* ------------------------------------------------------------------ *)
(* Bundles                                                             *)
(* ------------------------------------------------------------------ *)

\* `git bundle create <file> <base>..<ref>` (base = NoCommit: the whole history):
\* the commits of the range, and as prerequisites the parents they need that the
\* bundle does not carry
BundleCommits(g, tip, base) == ReachIn(g, tip) \ ReachIn(g, base)

BundlePrereq(g, tip, base) ==
    { p \in ReachIn(g, tip) :
        /\ p \notin BundleCommits(g, tip, base)
        /\ \E c \in BundleCommits(g, tip, base) :
              \E i \in 1..Len(g[c]) : g[c][i] = p }

MakeBundle(g, ref, tip, base, corrupt) ==
    [ref |-> ref, tip |-> tip, prereq |-> BundlePrereq(g, tip, base),
     corrupt |-> corrupt]

NoBundle == [ref |-> "", tip |-> NoCommit, prereq |-> {}, corrupt |-> TRUE]

(* ------------------------------------------------------------------ *)
(* import: initial states                                              *)
(* ------------------------------------------------------------------ *)

\* a chain 1 <- 2 <- ... and one unrelated root, the last commit
ImportGraph == [c \in Commits |-> IF c = 1 \/ c = NumCommits THEN <<>> ELSE <<c - 1>>]

\* the refs the bundle may carry as its first head
BundleRefs == {"refs/heads/feature", "refs/tags/feature"}

Bundles(g) ==
    { MakeBundle(g, r, t, b, k) :
        r \in BundleRefs, t \in Commits,
        b \in {NoCommit} \cup Commits, k \in BOOLEAN }

\* branch -> commit for the branches that exist
Restrict(f) == [n \in { m \in DOMAIN f : f[m] # NoCommit } |-> f[n]]

InitBranches ==
    { Restrict(f) : f \in
        { f \in [LocalNames -> {NoCommit} \cup Commits] :
            \A n \in {"develop", "main", "temp-before-import-feature"} : f[n] <= 1 } }

InitHeads(b) ==
    { OnBranch(n) : n \in DOMAIN b } \cup {OnBranch("main"), Detached(1)}

OriginHeads == {"", "refs/remotes/origin/main", "refs/remotes/origin/develop"}

ObjectsOf(g, b, h) ==
    UNION { ReachIn(g, b[n]) : n \in DOMAIN b } \cup ReachIn(g, h.commit)

Entries ==
    { [file |-> TRUE, ext |-> "bundle", mtime |-> m] : m \in 1..MaxMtime }
    \cup { [file |-> TRUE, ext |-> "txt", mtime |-> MaxMtime],
           [file |-> FALSE, ext |-> "bundle", mtime |-> MaxMtime] }

RECURSIVE SeqsUpTo(_, _)
SeqsUpTo(S, n) ==
    IF n = 0 THEN {<<>>}
    ELSE SeqsUpTo(S, n - 1)
         \cup { Append(q, e) : q \in { r \in SeqsUpTo(S, n - 1) : Len(r) = n - 1 }, e \in S }

NoDir == [exists |-> FALSE, entries |-> <<>>]

IncomingDirs == {NoDir} \cup { [exists |-> TRUE, entries |-> q] : q \in SeqsUpTo(Entries, MaxEntries) }

\* a repository with branch feature at commit 1 checked out, or with no branch at all
SmallRepo(b, h) ==
    \/ b = Restrict([n \in LocalNames |-> IF n = "feature" THEN 1 ELSE NoCommit])
          /\ h = OnBranch("feature")
    \/ DOMAIN b = {} /\ h = OnBranch("main")

ImportStart(g) ==
    /\ branches \in InitBranches
    /\ head \in InitHeads(branches)
    /\ objs = ObjectsOf(g, branches, head)
    /\ \/ /\ originHead \in OriginHeads
          /\ bundle \in Bundles(g)
          /\ sourceVm = Setting("work")
          /\ bundleArg = TRUE
          /\ incoming = NoDir
       \/ /\ SmallRepo(branches, head)
          /\ originHead = ""
          /\ bundle = MakeBundle(g, "refs/heads/feature", NumCommits, NoCommit, FALSE)
          /\ sourceVm \in {Unset, Setting(""), Setting("work")}
          /\ bundleArg \in BOOLEAN
          /\ incoming \in IncomingDirs
    /\ pc = "start"
    /\ result = ""
    /\ branchName = ""
    /\ finalName = ""
    /\ branchExists = FALSE
    /\ tempCreated = ""
    /\ bundlePath = 0
    /\ run = 1
    /\ prevPath = 0
    /\ loopIdx = 0
    /\ log = <<>>
    /\ branches0 = branches
    /\ head0 = head


(* ------------------------------------------------------------------ *)
(* export: pure helpers                                                *)
(* ------------------------------------------------------------------ *)

\* the commit walk stops once more than this many commits were counted
WalkCap == 50000

SExists(r) == r \in DOMAIN sRefs

\* revision lookup of a name: the first of the usual candidates that is a ref
\* ("" when none is)
RefCandidates(name) ==
    <<name, "refs/" \o name, "refs/tags/" \o name, "refs/heads/" \o name,
      "refs/remotes/" \o name>>

ResolveRef(refs, name) ==
    LET c == RefCandidates(name)
        hit == { i \in 1..Len(c) : c[i] \in DOMAIN refs }
    IN  IF name = "" \/ hit = {} THEN ""
        ELSE c[CHOOSE i \in hit : \A j \in hit : i <= j]

\* rev_parse_single(name): a commit, NoCommit when the name does not resolve
RevParse(refs, name) ==
    IF ResolveRef(refs, name) = "" THEN NoCommit ELSE refs[ResolveRef(refs, name)]

\* get_current_branch (config.rs): head_ref() is None for a detached and for an
\* unborn HEAD
ExportCurrentBranch ==
    IF sHead.sym /\ SExists("refs/heads/" \o sHead.name)
    THEN [ok |-> TRUE, name |-> StripPrefixOr("refs/heads/" \o sHead.name, "refs/heads/")]
    ELSE [ok |-> FALSE, name |-> ""]

\* a resolution that probes the local branches before the remote ones
ExportDefaultBranchLocalFirst(refs, oh) ==
    IF oh # "" THEN StripPrefixOr(oh, "refs/remotes/")
    ELSE IF "refs/heads/main" \in DOMAIN refs THEN "main"
    ELSE IF "refs/heads/master" \in DOMAIN refs THEN "master"
    ELSE IF "refs/remotes/origin/main" \in DOMAIN refs THEN "origin/main"
    ELSE IF "refs/remotes/origin/master" \in DOMAIN refs THEN "origin/master"
    ELSE ""

\* get_default_branch (export.rs): "" stands for the error
\* "Cannot determine default branch"
ExportDefaultBranch(refs, oh) ==
    IF oh # "" THEN StripPrefixOr(oh, "refs/remotes/")
    ELSE IF "refs/remotes/origin/main" \in DOMAIN refs THEN "origin/main"
    ELSE IF "refs/remotes/origin/master" \in DOMAIN refs THEN "origin/master"
    ELSE IF "refs/heads/main" \in DOMAIN refs THEN "main"
    ELSE IF "refs/heads/master" \in DOMAIN refs THEN "master"
    ELSE ""

\* get_default_branch (config.rs)
ConfigDefaultBranch(refs, oh) ==
    IF oh # "" THEN StripPrefixOr(oh, "refs/remotes/")
    ELSE IF "refs/remotes/origin/main" \in DOMAIN refs THEN "origin/main"
    ELSE IF "refs/remotes/origin/master" \in DOMAIN refs THEN "origin/master"
    ELSE IF "refs/heads/main" \in DOMAIN refs THEN "main"
    ELSE IF "refs/heads/master" \in DOMAIN refs THEN "master"
    ELSE ""

\* is_default_branch: refs/heads/ is removed from the branch; from the default
\* branch the first of origin/, refs/remotes/origin/, refs/heads/ that it starts with
IsDefaultBranch(branch, default) ==
    LET nb == StripPrefixOr(branch, "refs/heads/")
        nd == IF HasPrefix(default, "origin/") THEN StripPrefixOr(default, "origin/")
              ELSE IF HasPrefix(default, "refs/remotes/origin/")
                   THEN StripPrefixOr(default, "refs/remotes/origin/")
              ELSE StripPrefixOr(default, "refs/heads/")
    IN  nb = nd

\* the common ancestors of a and b that are ancestors of no other common ancestor
MergeBases(a, b) ==
    LET common == Reach(a) \cap Reach(b)
    IN  { c \in common : \A d \in common \ {c} : c \notin Reach(d) }

\* the loop of get_branch_info and get_range_info over a walk that yields n
\* commits: every iteration counts the commit and takes its id as first_sha
\* before the count is compared with the cap, so the loop is left after the
\* iteration that brought the count above the cap, or when the walk is used up
WalkVisited(n) == IF n > WalkCap THEN WalkCap + 1 ELSE n

\* the count kept by the walks of get_branch_info and get_range_info over the
\* set of commits in the range
WalkCount(S) == WalkVisited(Cardinality(S))

\* the returned (count, first_sha); NoCommit stands for "no commits"
WalkResult(n) ==
    IF WalkVisited(n) = 0
    THEN [count |-> 0, first |-> NoCommit]
    ELSE [count |-> WalkVisited(n), first |-> WalkVisited(n)]

(* ------------------------------------------------------------------ *)
(* export: steps of run                                                *)
(* ------------------------------------------------------------------ *)

exportInputs == <<parents, importVars, sRefs, sOriginHead, sHead, exportArg,
                  walkKind, walkLen, walkPc, walkOut>>

EGoto(p) == epc' = p /\ eresult' = eresult

EFail(msg) == epc' = "done" /\ eresult' = msg

ELoggedErr(c, o, e) == elog' = Append(elog, [cmd |-> c, ok |-> o, err |-> e])

ELogged(c, o) == ELoggedErr(c, o, "")

\* run, lines 12-15
ExportResolveBranch ==
    /\ epc = "start"
    /\ IF exportArg # ""
       THEN eBranch' = exportArg /\ EGoto("default")
       ELSE IF ExportCurrentBranch.ok
            THEN eBranch' = ExportCurrentBranch.name /\ EGoto("default")
            ELSE eBranch' = eBranch
                 /\ EFail("HEAD is detached or repository is in an invalid state")
    /\ UNCHANGED <<exportInputs, eDefault, eFull, eBase, eCount, outBundle, elog>>

\* run, line 39
ExportGetDefault ==
    /\ epc = "default"
    /\ ELogged("symbolic-ref", sOriginHead # "")
    /\ IF ExportDefaultBranch(sRefs, sOriginHead) = ""
       THEN eDefault' = eDefault /\ EFail("Cannot determine default branch")
       ELSE eDefault' = ExportDefaultBranch(sRefs, sOriginHead) /\ EGoto("range")
    /\ UNCHANGED <<exportInputs, eBranch, eFull, eBase, eCount, outBundle>>

\* run, lines 42-58: the range and the statistics reported for it
ExportRange ==
    /\ epc = "range"
    /\ IF IsDefaultBranch(eBranch, eDefault)
       THEN \* get_branch_info
            /\ eFull' = TRUE
            /\ eBase' = NoCommit
            /\ IF RevParse(sRefs, eBranch) = NoCommit
               THEN eCount' = eCount /\ EFail("revision not found")
               ELSE eCount' = WalkCount(Reach(RevParse(sRefs, eBranch)))
                    /\ EGoto("bundle")
       ELSE \* get_merge_base, get_range_info
            /\ eFull' = FALSE
            /\ IF RevParse(sRefs, eBranch) = NoCommit \/ RevParse(sRefs, eDefault) = NoCommit
               THEN UNCHANGED <<eBase, eCount>> /\ EFail("revision not found")
               ELSE IF MergeBases(RevParse(sRefs, eBranch), RevParse(sRefs, eDefault)) = {}
               THEN UNCHANGED <<eBase, eCount>> /\ EFail("Cannot find merge base")
               ELSE \E mb \in MergeBases(RevParse(sRefs, eBranch), RevParse(sRefs, eDefault)) :
                       /\ eBase' = mb
                       /\ eCount' = WalkCount(Reach(RevParse(sRefs, eBranch)) \ Reach(mb))
                       /\ EGoto("bundle")
    /\ UNCHANGED <<exportInputs, eBranch, eDefault, outBundle, elog>>

\* `git bundle create` can succeed: the branch resolves to a ref and the range
\* holds a commit
CanCreateBundle ==
    /\ ResolveRef(sRefs, eBranch) # ""
    /\ BundleCommits(parents, RevParse(sRefs, eBranch), eBase) # {}

\* a bundle made of the default branch instead of the branch asked for
ExportCreateBundleOfDefault ==
    /\ epc = "bundle"
    /\ \E ok \in BOOLEAN :
          /\ ok => ResolveRef(sRefs, eDefault) # ""
          /\ ELogged("bundle create", ok)
          /\ IF ok
             THEN /\ outBundle' = MakeBundle(parents, ResolveRef(sRefs, eDefault),
                                             RevParse(sRefs, eDefault), NoCommit, FALSE)
                  /\ EGoto("move")
             ELSE /\ outBundle' = outBundle
                  /\ EFail("Git command failed: Bundle creation failed")
    /\ UNCHANGED <<exportInputs, eBranch, eDefault, eFull, eBase, eCount>>

\* create_bundle
ExportCreateBundle ==
    /\ epc = "bundle"
    /\ \E ok \in BOOLEAN :
          /\ ok => CanCreateBundle
          /\ ELogged("bundle create", ok)
          /\ IF ok
             THEN /\ outBundle' = MakeBundle(parents, ResolveRef(sRefs, eBranch),
                                             RevParse(sRefs, eBranch), eBase, FALSE)
                  /\ EGoto("move")
             ELSE /\ outBundle' = outBundle
                  /\ EFail("Git command failed: Bundle creation failed")
    /\ UNCHANGED <<exportInputs, eBranch, eDefault, eFull, eBase, eCount>>

\* what the transfer utility may write to stderr when it fails
MoveErrors == {"", "Request refused"}

\* a transfer whose exit status is not looked at
ExportMoveBundleUnchecked ==
    /\ epc = "move"
    /\ \E ok \in BOOLEAN, err \in MoveErrors :
          /\ ELoggedErr("qvm-move", ok, IF ok THEN "" ELSE err)
          /\ epc' = "done"
          /\ eresult' = "ok"
    /\ UNCHANGED <<exportInputs, eBranch, eDefault, eFull, eBase, eCount, outBundle>>

\* move_bundle_to_vm
ExportMoveBundle ==
    /\ epc = "move"
    /\ \/ ELogged("qvm-move", TRUE) /\ epc' = "done" /\ eresult' = "ok"
       \/ \E err \in MoveErrors :
             /\ ELoggedErr("qvm-move", FALSE, err)
             /\ EFail("Git command failed: qvm-move failed: " \o err)
    /\ UNCHANGED <<exportInputs, eBranch, eDefault, eFull, eBase, eCount, outBundle>>

ExportNext ==
    \/ ExportResolveBranch
    \/ ExportGetDefault
    \/ ExportRange
    \/ ExportCreateBundle
    \/ ExportMoveBundle

(* ------------------------------------------------------------------ *)
(* export: initial states                                              *)
(* ------------------------------------------------------------------ *)

\* every graph in which a commit has at most two parents, all of them older
ParentLists(c) ==
    ({<<>>} \cup { <<p>> : p \in 1..(c - 1) })
    \cup { l \in { <<p, q>> : p \in 1..(c - 1), q \in 1..(c - 1) } : l[1] < l[2] }

Graphs == { g \in [Commits -> UNION { ParentLists(c) : c \in Commits }] :
              \A c \in Commits : g[c] \in ParentLists(c) }

ExportArgs == {"", "feature", "main", "refs/heads/feature", "refs/heads/main",
               "origin/main", "refs/remotes/origin/main"}

ExportHeads == {OnBranch("feature"), OnBranch("main"), OnBranch("trunk"), Detached(1)}

\* ref name -> commit for the refs that exist
SourceRefs(f) == [r \in { q \in DOMAIN f : f[q] # NoCommit } |-> f[r]]

\* repositories over any graph: a feature branch, and as the default branch
\* either a local main (no remote) or origin/main named by origin/HEAD
GraphRepos ==
    { [refs |-> SourceRefs([r \in {d, "refs/heads/feature"} |->
                               IF r = d THEN m ELSE f]),
       oh |-> IF d = "refs/heads/main" THEN "" ELSE d] :
        d \in {"refs/heads/main", "refs/remotes/origin/main"},
        m \in Commits, f \in Commits }

\* repositories over the first commit, with any of the conventional refs
RefRepos ==
    { [refs |-> SourceRefs(f), oh |-> oh] :
        f \in [{"refs/heads/main", "refs/heads/master", "refs/heads/trunk",
                "refs/remotes/origin/main", "refs/remotes/origin/master"} -> {NoCommit, 1}],
        oh \in {"", "refs/remotes/origin/main", "refs/remotes/origin/master",
                "refs/remotes/origin/develop", "refs/heads/main"} }

ExportStart ==
    /\ \/ /\ parents \in Graphs
          /\ \E repo \in GraphRepos : sRefs = repo.refs /\ sOriginHead = repo.oh
       \/ /\ parents = ImportGraph
          /\ \E repo \in RefRepos : sRefs = repo.refs /\ sOriginHead = repo.oh
    /\ exportArg \in ExportArgs
    /\ sHead \in ExportHeads
    /\ exportArg # "" => sHead = OnBranch("main")
    /\ epc = "start"
    /\ eresult = ""
    /\ eBranch = ""
    /\ eDefault = ""
    /\ eFull = FALSE
    /\ eBase = NoCommit
    /\ eCount = 0
    /\ outBundle = NoBundle
    /\ elog = <<>>

ExportIdle ==
    /\ sRefs = <<>>
    /\ sOriginHead = ""
    /\ sHead = OnBranch("main")
    /\ exportArg = ""
    /\ epc = "idle"
    /\ eresult = ""
    /\ eBranch = ""
    /\ eDefault = ""
    /\ eFull = FALSE
    /\ eBase = NoCommit
    /\ eCount = 0
    /\ outBundle = NoBundle
    /\ elog = <<>>

WalkIdle ==
    /\ walkKind = "range"
    /\ walkLen = 0
    /\ walkPc = "idle"
    /\ walkOut = [count |-> 0, first |-> NoCommit]

ImportIdle ==
    /\ branches = <<>>
    /\ head = OnBranch("main")
    /\ objs = {}
    /\ originHead = ""
    /\ sourceVm = Unset
    /\ bundleArg = FALSE
    /\ incoming = NoDir
    /\ bundle = NoBundle
    /\ pc = "idle"
    /\ result = ""
    /\ branchName = ""
    /\ finalName = ""
    /\ branchExists = FALSE
    /\ tempCreated = ""
    /\ bundlePath = 0
    /\ run = 1
    /\ prevPath = 0
    /\ loopIdx = 0
    /\ log = <<>>
    /\ branches0 = <<>>
    /\ head0 = OnBranch("main")

(* ------------------------------------------------------------------ *)
(* Specifications                                                      *)
(* ------------------------------------------------------------------ *)

\* one import invocation
Init ==
    /\ parents = ImportGraph
    /\ ImportStart(ImportGraph)
    /\ ExportIdle
    /\ WalkIdle

Next == ImportNext

Spec == Init /\ [][Next]_vars

\* one export invocation
InitExport ==
    /\ ExportStart
    /\ ImportIdle
    /\ WalkIdle

NextExport == ExportNext

SpecExport == InitExport /\ [][NextExport]_vars

\* the transfer utility has moved the exported directory and the bundle now lies
\* in the incoming directory of the importing side, where `import` is started
Transfer ==
    /\ epc = "done"
    /\ eresult = "ok"
    /\ pc = "idle"
    /\ pc' = "start"
    /\ bundle' = outBundle
    /\ incoming' = [exists |-> TRUE,
                    entries |-> <<[file |-> TRUE, ext |-> "bundle", mtime |-> 1]>>]
    /\ UNCHANGED <<parents, exportVars, repoVars, localVars, originHead, sourceVm,
                   bundleArg, result, log, branches0, head0, run, prevPath>>

\* `import` is started again in the repository and with the incoming directory
\* the invocation before it left
Rerun ==
    /\ pc = "done"
    /\ run < MaxRuns
    /\ run' = run + 1
    /\ prevPath' = bundlePath
    /\ pc' = "start"
    /\ result' = ""
    /\ branchName' = ""
    /\ finalName' = ""
    /\ branchExists' = FALSE
    /\ tempCreated' = ""
    /\ bundlePath' = 0
    /\ loopIdx' = 0
    /\ log' = <<>>
    /\ branches0' = branches
    /\ head0' = head
    /\ UNCHANGED <<parents, exportVars, repoVars, originHead, sourceVm, bundleArg,
                   incoming, bundle>>

\* import invocations in a row that discover their bundle
InitRerun == Init /\ ~bundleArg

NextRerun == ImportNext \/ Rerun

SpecRerun == InitRerun /\ [][NextRerun]_vars

\* the importing repositories of the round trip: no branch at all, a main
\* branch, or a feature branch that is checked out
RoundTripRepos ==
    { [b |-> <<>>, h |-> OnBranch("main")],
      [b |-> [main |-> 1], h |-> OnBranch("main")],
      [b |-> [main |-> NumCommits], h |-> OnBranch("main")],
      [b |-> [feature |-> 1], h |-> OnBranch("feature")] }

\* an export in one repository, then the import of its bundle in another
InitRoundTrip ==
    /\ parents \in Graphs
    /\ \E repo \in GraphRepos : sRefs = repo.refs /\ sOriginHead = repo.oh
    /\ exportArg \in {"main", "feature", "refs/heads/feature"}
    /\ sHead = OnBranch("main")
    /\ epc = "start"
    /\ eresult = ""
    /\ eBranch = ""
    /\ eDefault = ""
    /\ eFull = FALSE
    /\ eBase = NoCommit
    /\ eCount = 0
    /\ outBundle = NoBundle
    /\ elog = <<>>
    /\ WalkIdle
    /\ \E repo \in RoundTripRepos : branches = repo.b /\ head = repo.h
    /\ objs = ObjectsOf(parents, branches, head)
    /\ originHead = ""
    /\ sourceVm = Setting("work")
    /\ bundleArg = FALSE
    /\ incoming = NoDir
    /\ bundle = NoBundle
    /\ pc = "idle"
    /\ result = ""
    /\ branchName = ""
    /\ finalName = ""
    /\ branchExists = FALSE
    /\ tempCreated = ""
    /\ bundlePath = 0
    /\ run = 1
    /\ prevPath = 0
    /\ loopIdx = 0
    /\ log = <<>>
    /\ branches0 = branches
    /\ head0 = head

NextRoundTrip == ExportNext \/ Transfer \/ ImportNext

SpecRoundTrip == InitRoundTrip /\ [][NextRoundTrip]_vars

\* one commit walk: of the whole history of a branch, or of a range
WalkLens == (0..WalkSlack) \cup ((WalkCap - WalkSlack)..(WalkCap + WalkSlack))

GetBranchInfo ==
    /\ walkPc = "start"
    /\ walkKind = "branch"
    /\ walkOut' = WalkResult(walkLen)
    /\ walkPc' = "done"
    /\ UNCHANGED <<parents, importVars, sRefs, sOriginHead, sHead, exportArg, epc,
                   eresult, eBranch, eDefault, eFull, eBase, eCount, outBundle,
                   elog, walkKind, walkLen>>

GetRangeInfo ==
    /\ walkPc = "start"
    /\ walkKind = "range"
    /\ walkOut' = WalkResult(walkLen)
    /\ walkPc' = "done"
    /\ UNCHANGED <<parents, importVars, sRefs, sOriginHead, sHead, exportArg, epc,
                   eresult, eBranch, eDefault, eFull, eBase, eCount, outBundle,
                   elog, walkKind, walkLen>>

InitWalk ==
    /\ parents = ImportGraph
    /\ ImportIdle
    /\ ExportIdle
    /\ walkKind \in {"branch", "range"}
    /\ walkLen \in WalkLens
    /\ walkKind = "branch" => walkLen > 0
    /\ walkPc = "start"
    /\ walkOut = [count |-> 0, first |-> NoCommit]

NextWalk == GetBranchInfo \/ GetRangeInfo

SpecWalk == InitWalk /\ [][NextWalk]_vars

(* ------------------------------------------------------------------ *)
(* Properties of import                                                *)
(* ------------------------------------------------------------------ *)

\* the log holds an entry of command c with argument a and outcome o
Did(c, a, o) == \E i \in 1..Len(log) : log[i] = [cmd |-> c, arg |-> a, ok |-> o]

Chose(option) == Did("select", option, TRUE)

Succeeded == pc = "done" /\ result = "ok"

RefsUntouched == branches = branches0 /\ head = head0

\* C1: the conflicting branch is deleted only after Overwrite was selected and a
\* separate, explicit confirmation was given.
C1_OverwriteNeedsConfirmation ==
    Did("branch -D", branchName, TRUE)
        => Chose("overwrite") /\ Did("confirm", branchName, TRUE)

\* C2: when the user chooses Cancel the import ends with "Cancelled by user" and
\* the local branches, their commits and HEAD are what they were before the import.
C2_CancelLeavesRepository ==
    Chose("cancel")
        => pc = "done" /\ result = "Cancelled by user" /\ RefsUntouched

C2_Witness ==
    /\ Chose("cancel")
    /\ pc = "done"
    /\ branches0["feature"] # bundle.tip

\* C3: a successful Overwrite of X (at a) by a bundle carrying X at b,
\* a # b, ends with X at b and no branch temp-before-import-X in the repository.
C3_OverwriteNoTempLeft ==
    (Succeeded /\ Chose("overwrite") /\ branches0[branchName] # bundle.tip)
        => /\ TipOf(branchName) = bundle.tip
           /\ ~Exists(TempBranchName(branchName))

\* C4: after Rename is chosen X keeps its commit at every step, and a successful
\* import ends with import-X at the bundle's commit.
C4_RenameKeepsBranch ==
    Chose("rename")
        => /\ Exists(branchName)
           /\ branches[branchName] = branches0[branchName]
           /\ Succeeded => TipOf("import-" \o branchName) = bundle.tip

C4_Witness ==
    /\ Succeeded
    /\ Chose("rename")
    /\ branches0[branchName] # bundle.tip
    /\ "import-feature" \notin DOMAIN branches0
    /\ TipOf("import-feature") = bundle.tip

\* the import is overwriting the branch that was checked out when it started
OverwritingCurrent ==
    /\ Chose("overwrite")
    /\ head0 = OnBranch(branchName)
    /\ pc \in {"ds_default", "ds_loop", "ds_stale", "ds_parent", "ds_orphan",
               "ds_reset", "ds_delete", "import", "switch", "cleanup", "done"}

\* C5: while the checked-out branch is overwritten HEAD is, after every step,
\* attached to a local branch that exists.
C5_HeadOnExistingBranch ==
    OverwritingCurrent => head.sym /\ Exists(head.name)

\* C6: a bundle that fails verification ends the import with "Bundle verification
\* failed" before any prompt and any change of a branch or of HEAD, and every
\* change of a ref comes after a successful verification.
C6_VerifyFirst ==
    /\ Did("bundle verify", "", FALSE)
         => /\ pc = "done" /\ result = "Bundle verification failed"
            /\ RefsUntouched
            /\ Len(log) = 1
    /\ ~RefsUntouched => log[1] = [cmd |-> "bundle verify", arg |-> "", ok |-> TRUE]

C6_Witness ==
    /\ Did("bundle verify", "", FALSE)
    /\ pc = "done"
    /\ "feature" \in DOMAIN branches0

(* ------------------------------------------------------------------ *)
(* Properties of export and of the round trip                          *)
(* ------------------------------------------------------------------ *)

\* the local branch name of the branch that was exported
ExportedBranch == StripPrefixOr(eBranch, "refs/heads/")

RangeComputed ==
    \/ epc \in {"bundle", "move"}
    \/ epc = "done" /\ \E i \in 1..Len(elog) : elog[i].cmd = "bundle create"

\* a name without the one ref prefix it starts with
Normalized(name) ==
    IF HasPrefix(name, "refs/heads/") THEN StripPrefixOr(name, "refs/heads/")
    ELSE IF HasPrefix(name, "refs/remotes/origin/") THEN StripPrefixOr(name, "refs/remotes/origin/")
    ELSE StripPrefixOr(name, "origin/")

\* C8: a branch name that equals the default branch once the prefixes
\* refs/heads/, origin/ and refs/remotes/origin/ are removed from each of the two
\* is exported with its whole history, and no merge base is computed.
C8_DefaultExportsWholeHistory ==
    (RangeComputed /\ Normalized(eBranch) = Normalized(eDefault))
        => eFull /\ eBase = NoCommit

\* C9: for a branch other than the default branch the range starts at a merge
\* base and the reported count is the number of commits reachable from the
\* branch and not from the default branch.
C9_RangeCount ==
    (RangeComputed /\ ~eFull)
        => /\ eBase \in MergeBases(RevParse(sRefs, eBranch), RevParse(sRefs, eDefault))
           /\ eCount = Cardinality(Reach(RevParse(sRefs, eBranch))
                                      \ Reach(RevParse(sRefs, eDefault)))

\* C10: the default branch is what origin/HEAD points at when that symbolic ref
\* exists; else the first that exists of origin/main, origin/master, main,
\* master; else the resolution fails with "Cannot determine default branch".
C10_DefaultBranchOrder ==
    Len(elog) >= 1
        => /\ sOriginHead # ""
                => /\ eDefault = sOriginHead \/ "refs/remotes/" \o eDefault = sOriginHead
                   /\ ConfigDefaultBranch(sRefs, sOriginHead) = eDefault
           /\ sOriginHead = ""
                => LET found ==
                         IF SExists("refs/remotes/origin/main") THEN "origin/main"
                         ELSE IF SExists("refs/remotes/origin/master") THEN "origin/master"
                         ELSE IF SExists("refs/heads/main") THEN "main"
                         ELSE IF SExists("refs/heads/master") THEN "master"
                         ELSE "none"
                   IN  /\ found # "none"
                            => /\ eDefault = found
                               /\ eresult # "Cannot determine default branch"
                               /\ ConfigDefaultBranch(sRefs, sOriginHead) = found
                       /\ found = "none"
                            => /\ epc = "done"
                               /\ eresult = "Cannot determine default branch"
                               /\ ConfigDefaultBranch(sRefs, sOriginHead) = ""

C10_Witness ==
    /\ Len(elog) >= 1
    /\ sOriginHead = ""
    /\ DOMAIN sRefs = {"refs/heads/trunk"}
    /\ eresult = "Cannot determine default branch"

(* ------------------------------------------------------------------ *)
(* Properties of discovery, configuration and error handling           *)
(* ------------------------------------------------------------------ *)

\* the directory entries that are regular files with extension "bundle"
IsBundleFile(e) == e.file /\ e.ext = "bundle"

NothingToDiscover ==
    \/ ~incoming.exists
    \/ \A j \in 1..Len(incoming.entries) : ~IsBundleFile(incoming.entries[j])

\* C13: with qsync.source-vm set and no bundle path given, an absent incoming
\* directory or one without a bundle file ends the import with "No bundle files
\* found in <dir>", before any verification, prompt or change of a ref.
C13_NoBundleFound ==
    (~bundleArg /\ GetSourceVm.ok /\ NothingToDiscover /\ pc \notin {"start", "find"})
        => /\ pc = "done"
           /\ result = "No bundle files found in " \o IncomingPath(sourceVm.value)
           /\ log = <<>>
           /\ RefsUntouched

C13_Witness ==
    /\ ~bundleArg
    /\ pc = "done"
    /\ result = "No bundle files found in ~/QubesIncoming/work/git-qsync/project"
    /\ incoming.exists
    /\ \E j \in 1..Len(incoming.entries) : incoming.entries[j].ext = "bundle"

\* C14: with qsync.source-vm unset or empty, an import without a bundle path
\* ends with "Configuration missing: qsync.source-vm" before any bundle is looked
\* up or verified and before any change of a ref.
C14_MissingSourceVm ==
    (~bundleArg /\ (~sourceVm.set \/ sourceVm.value = "") /\ pc # "start")
        => /\ pc = "done"
           /\ result = "Configuration missing: qsync.source-vm"
           /\ bundlePath = 0
           /\ log = <<>>
           /\ RefsUntouched

C14_Witness ==
    /\ ~bundleArg
    /\ sourceVm = Setting("")
    /\ result = "Configuration missing: qsync.source-vm"
    /\ FindLatestBundle(incoming) # 0

\* the checked-out test of the overwrite has been passed
PastCurrentBranch ==
    /\ Chose("overwrite")
    /\ pc \notin {"conflict", "ds_current"}

\* C15: the current-branch resolver of import's checked-out test yields a name
\* only when HEAD points at an existing branch; for a detached and for an unborn
\* HEAD it fails, and the import ends with that error.
C15_CurrentBranchOrError ==
    PastCurrentBranch
        => \/ head0.sym /\ head0.name \in DOMAIN branches0
           \/ /\ pc = "done"
              /\ result \in {"HEAD is detached, not on a branch",
                             "HEAD is unborn or in an unexpected state"}

\* the i-th entry of the log is the clean-up delete of the temporary branch
IsCleanupDelete(i) ==
    /\ tempCreated # ""
    /\ log[i] = [cmd |-> "branch -D", arg |-> tempCreated, ok |-> FALSE]
    /\ i = Len(log)
    /\ Succeeded

\* C16: an external command that exits non-zero is the last thing the invocation
\* does and the invocation ends with an error; only the failed clean-up delete
\* of the temporary branch lets it end successfully.
C16_FailedCommandEndsRun ==
    \A i \in 1..Len(log) :
        (log[i].cmd # "select" /\ ~log[i].ok)
            => \/ i = Len(log) /\ pc = "done" /\ result # "ok"
               \/ IsCleanupDelete(i)

\* C17: when the delete of the temporary branch this import created fails, the
\* import still ends successfully with the imported branch checked out at the
\* bundle's commit, and the temporary branch stays.
C17_CleanupFailureIsWarning ==
    (tempCreated # "" /\ Did("branch -D", tempCreated, FALSE))
        => /\ Succeeded
           /\ head = OnBranch(finalName)
           /\ TipOf(finalName) = bundle.tip
           /\ Exists(tempCreated)

C17_Witness ==
    /\ tempCreated = "temp-before-import-feature"
    /\ log[Len(log)] = [cmd |-> "branch -D", arg |-> tempCreated, ok |-> FALSE]
    /\ Succeeded
    /\ Exists(tempCreated)

\* C18: export ends successfully only after a successful bundle creation followed
\* by a transfer that exited with status 0; a transfer that exits non-zero ends
\* the export with an error holding what the utility wrote to stderr; the
\* transfer is not started when the bundle creation failed.
C18_ExportSuccess ==
    /\ eresult = "ok"
         => /\ Len(elog) >= 2
            /\ elog[Len(elog)] = [cmd |-> "qvm-move", ok |-> TRUE, err |-> ""]
            /\ elog[Len(elog) - 1] = [cmd |-> "bundle create", ok |-> TRUE, err |-> ""]
            /\ outBundle # NoBundle
    /\ \A i \in 1..Len(elog) :
         /\ (elog[i].cmd = "qvm-move" /\ ~elog[i].ok)
              => /\ epc = "done"
                 /\ eresult = "Git command failed: qvm-move failed: " \o elog[i].err
         /\ (elog[i].cmd = "bundle create" /\ ~elog[i].ok)
              => /\ i = Len(elog)
                 /\ epc = "done"
                 /\ eresult = "Git command failed: Bundle creation failed"

C18_Witness ==
    /\ epc = "done"
    /\ Len(elog) >= 2
    /\ elog[Len(elog)] = [cmd |-> "qvm-move", ok |-> FALSE, err |-> "Request refused"]
    /\ outBundle # NoBundle
    /\ eresult # "ok"

(* ------------------------------------------------------------------ *)
(* Properties of the detour                                            *)
(* ------------------------------------------------------------------ *)

\* a checkout of branch n failed before the i-th command
FailedBefore(i, n) ==
    \E j \in 1..(i - 1) : log[j] = [cmd |-> "checkout", arg |-> n, ok |-> FALSE]

\* the branch origin/HEAD names exists locally and is not the branch to overwrite
DefaultAvailable ==
    /\ GetDefaultBranch # ""
    /\ GetDefaultBranch \in DOMAIN branches0
    /\ GetDefaultBranch # finalName

\* the other local branches there were when the import started
OtherBranches == DOMAIN branches0 \ {finalName}

\* C19: away from the checked-out branch the detour goes (a) to the detected
\* default branch when it exists and is another branch, (b) to another local
\* branch only after (a) was unavailable or its checkout failed, (c) to a new
\* temporary branch at HEAD~1 only after the checkout of every other branch
\* failed, and to an orphan branch, followed by a reset, only after that failed
\* too; a temporary branch is recorded for the clean-up only in case (c).
C19_DetourOrder ==
    /\ \A i \in 1..Len(log) :
         /\ (log[i].cmd = "checkout" /\ log[i].arg # finalName)
              => /\ head0 = OnBranch(finalName)
                 /\ log[i].arg \in OtherBranches
                 /\ DefaultAvailable
                      => \/ log[i].arg = GetDefaultBranch
                         \/ FailedBefore(i, GetDefaultBranch)
         /\ log[i].cmd = "checkout -b"
              => /\ log[i].arg = TempBranchName(finalName)
                 /\ \A n \in OtherBranches : FailedBefore(i, n)
         /\ log[i].cmd = "checkout --orphan"
              => /\ log[i].arg = TempBranchName(finalName)
                 /\ log[i - 1] = [cmd |-> "checkout -b", arg |-> log[i].arg, ok |-> FALSE]
         /\ log[i].cmd = "reset --hard"
              => log[i - 1] = [cmd |-> "checkout --orphan",
                               arg |-> TempBranchName(finalName), ok |-> TRUE]
    /\ tempCreated # ""
         => /\ tempCreated = TempBranchName(finalName)
            /\ \/ Did("checkout -b", tempCreated, TRUE)
               \/ Did("checkout --orphan", tempCreated, TRUE)
            /\ \A n \in OtherBranches : ~Did("checkout", n, TRUE)
    /\ (\E n \in OtherBranches : Did("checkout", n, TRUE)) /\ pc = "done"
         => tempCreated = ""

C19_Witness ==
    /\ DefaultAvailable
    /\ Cardinality(OtherBranches) >= 2
    /\ Did("checkout -b", TempBranchName(finalName), TRUE)
    /\ tempCreated = "temp-before-import-feature"
    /\ Succeeded

\* the local branches of the importing repository at the start, as refs
ImportRefs ==
    [r \in { "refs/heads/" \o n : n \in DOMAIN branches0 }
        |-> branches0[StripPrefixOr(r, "refs/heads/")]]

\* the local name of the branch the default-branch resolution of config.rs
\* gives in the importing repository ("" when it fails)
ResolvedDefault ==
    StripPrefixOr(ConfigDefaultBranch(ImportRefs, originHead), "origin/")

\* C20: the detour away from the checked-out branch goes first to the branch
\* the default-branch resolution gives (origin/HEAD, else origin/main,
\* origin/master, main, master) when that branch exists locally and is not the
\* branch to overwrite; another branch is checked out only after that failed.
C20_DetourPrefersResolvedDefault ==
    \A i \in 1..Len(log) :
        ( /\ log[i].cmd = "checkout"
          /\ log[i].arg # finalName
          /\ ResolvedDefault \in OtherBranches )
            => \/ log[i].arg = ResolvedDefault
               \/ FailedBefore(i, ResolvedDefault)

\* a command that moved HEAD away succeeded before the i-th command
SwitchedBefore(i) ==
    \E j \in 1..(i - 1) :
        /\ log[j].ok
        /\ log[j].cmd \in {"checkout", "checkout -b", "checkout --orphan"}

\* C21: the delete of the conflicting branch X is issued only while HEAD is not
\* on X; when X was checked out a switch away succeeded before it, and when none
\* succeeded the import ends with an error and X is as it was.
C21_DeleteAfterSwitch ==
    /\ pc = "ds_delete" => ~CheckedOut(finalName)
    /\ \A i \in 1..Len(log) :
         (log[i].cmd = "branch -D" /\ log[i].arg = branchName /\ head0 = OnBranch(branchName))
            => SwitchedBefore(i)
    /\ ( /\ Chose("overwrite")
         /\ head0 = OnBranch(branchName)
         /\ pc = "done"
         /\ ~SwitchedBefore(Len(log) + 1) )
            => /\ result # "ok"
               /\ Exists(branchName)
               /\ branches[branchName] = branches0[branchName]
               /\ ~Did("branch -D", branchName, TRUE)
               /\ ~Did("branch -D", branchName, FALSE)

C21_Witness ==
    /\ head0 = OnBranch(branchName)
    /\ Did("checkout", "main", FALSE)
    /\ Did("checkout --orphan", TempBranchName(branchName), TRUE)
    /\ Did("branch -D", branchName, TRUE)

(* ------------------------------------------------------------------ *)
(* Properties of the order of the steps                                *)
(* ------------------------------------------------------------------ *)

\* this import created its temporary branch before the i-th command
CreatedTempBefore(i) ==
    \E j \in 1..(i - 1) :
        /\ log[j].ok
        /\ log[j].cmd \in {"checkout -b", "checkout --orphan"}

\* the step of run the i-th command belongs to: 1 verify, 2 read the branch
\* name, 3 resolve the conflict, 4 switch away, 5 delete the existing branch,
\* 6 fetch, 7 check out the imported branch, 8 delete the temporary branch
StepOf(i) ==
    CASE log[i].cmd = "bundle verify" -> 1
      [] log[i].cmd = "bundle list-heads" -> 2
      [] log[i].cmd = "select" -> 3
      [] log[i].cmd = "checkout" /\ log[i].arg # finalName -> 4
      [] log[i].cmd \in {"checkout -b", "checkout --orphan", "reset --hard"} -> 4
      [] log[i].cmd = "branch -D" /\ log[i].arg = branchName -> 5
      [] log[i].cmd = "branch -D" /\ log[i].arg # branchName ->
             IF CreatedTempBefore(i) THEN 8 ELSE 4
      [] log[i].cmd = "fetch" -> 6
      [] log[i].cmd = "checkout" /\ log[i].arg = finalName -> 7

\* C22: the commands of an import follow the order verify, read the branch name,
\* resolve the conflict, (switch away and) delete the existing branch, fetch,
\* check out the imported branch, delete the temporary branch; each of these but
\* the switching away happens at most once; the temporary branch this import
\* created is deleted only directly after the successful checkout of the imported
\* branch; under Overwrite the fetch directly follows the successful delete.
C22_StepOrder ==
    /\ \A i \in 1..Len(log) : \A j \in 1..Len(log) :
          i < j => /\ StepOf(i) <= StepOf(j)
                   /\ StepOf(i) # 4 => StepOf(i) < StepOf(j)
    /\ \A i \in 1..Len(log) :
          /\ StepOf(i) = 5 => Chose("overwrite")
          /\ (StepOf(i) = 6 /\ Chose("overwrite"))
                => log[i - 1] = [cmd |-> "branch -D", arg |-> branchName, ok |-> TRUE]
          /\ StepOf(i) = 6
                => /\ log[1] = [cmd |-> "bundle verify", arg |-> "", ok |-> TRUE]
                   /\ log[2] = [cmd |-> "bundle list-heads", arg |-> "", ok |-> TRUE]
                   /\ log[i].arg = finalName
          /\ StepOf(i) = 7
                => log[i - 1] = [cmd |-> "fetch", arg |-> finalName, ok |-> TRUE]
          /\ StepOf(i) = 8
                => /\ log[i].arg = tempCreated
                   /\ log[i - 1] = [cmd |-> "checkout", arg |-> finalName, ok |-> TRUE]
    /\ Succeeded => \E i \in 1..Len(log) : StepOf(i) = 7 /\ log[i].ok

C22_Witness ==
    /\ Succeeded
    /\ Len(log) = 8
    /\ StepOf(3) = 3
    /\ StepOf(4) = 4
    /\ StepOf(5) = 5
    /\ StepOf(6) = 6
    /\ StepOf(7) = 7
    /\ StepOf(8) = 8

\* the bundle's branch name has been looked up among the local branches
PastCheckBranchExists == branchName # "" /\ pc # "check_exists"

\* C23: when no local branch has the bundle's branch name the import shows no
\* prompt, deletes nothing, creates no temporary branch, fetches into the branch
\* of exactly that name, and a successful import ends with HEAD on that branch
\* at the bundle's commit and every other branch as it was.
C23_NoConflictImport ==
    (PastCheckBranchExists /\ branchName \notin DOMAIN branches0)
        => /\ finalName = branchName
           /\ tempCreated = ""
           /\ \A i \in 1..Len(log) :
                 /\ log[i].cmd \notin {"select", "branch -D", "checkout -b",
                                       "checkout --orphan", "reset --hard"}
                 /\ log[i].cmd \in {"fetch", "checkout"} => log[i].arg = branchName
           /\ Succeeded
                => /\ head = OnBranch(branchName)
                   /\ branches = [n \in DOMAIN branches0 \cup {branchName} |->
                                     IF n = branchName THEN bundle.tip ELSE branches0[n]]

C23_Witness ==
    /\ Succeeded
    /\ "feature" \notin DOMAIN branches0
    /\ DOMAIN branches0 # {}
    /\ head0 # OnBranch("feature")
    /\ head = OnBranch("feature")
    /\ branches["feature"] = bundle.tip

\* C24: the walk visits at most 50,000 commits and the reported count never
\* exceeds 50,000; over a range of more commits than that the walk stops early
\* and the reported oldest id is that of the last commit visited.
C24_WalkCapped ==
    walkPc = "done"
        => /\ walkOut.count <= WalkCap
           /\ walkLen > WalkCap
                => /\ walkOut.count < walkLen
                   /\ walkOut.first = walkOut.count

\* C25: an import that is given a bundle path does not end with the
\* configuration-missing error when qsync.source-vm is unset, and goes on to
\* verify the given bundle.
C25_ExplicitPathNeedsNoSourceVm ==
    (bundleArg /\ ~sourceVm.set /\ pc # "start")
        => /\ result # "Configuration missing: qsync.source-vm"
           /\ pc \notin {"find", "verify"}
                => \E i \in 1..Len(log) : log[i].cmd = "bundle verify"

\* C26: the search for a branch to switch away to attempts each local branch at
\* most once: no branch is the argument of two checkouts of one import.
C26_EachBranchTriedOnce ==
    \A i, j \in 1..Len(log) :
        (i < j /\ log[i].cmd = "checkout" /\ log[j].cmd = "checkout")
            => log[i].arg # log[j].arg

\* the import has ended with an error
Failed == pc = "done" /\ result # "ok"

\* C27: an import that ends with an error leaves every branch that existed
\* before it in place at its commit, and HEAD on the branch it was on.
C27_FailedImportChangesNothing ==
    Failed
        => /\ \A n \in DOMAIN branches0 :
                 n \in DOMAIN branches /\ branches[n] = branches0[n]
           /\ head = head0

\* C28: an import deletes no branch that existed before it other than the
\* conflicting branch whose overwrite was chosen; a branch named
\* temp-before-import-X that existed before is still there at its commit.
C28_OnlyConflictingBranchDeleted ==
    /\ \A n \in DOMAIN branches0 :
          n \notin DOMAIN branches => (n = branchName /\ Chose("overwrite"))
    /\ \A n \in DOMAIN branches0 :
          (branchName # "" /\ n = TempBranchName(branchName))
              => (n \in DOMAIN branches /\ branches[n] = branches0[n])

\* C29: after Rename was chosen every branch that existed before the import is
\* still there at its commit, import-X included, whether the import succeeds or
\* fails.
C29_RenameMovesNoBranch ==
    Chose("rename")
        => \A n \in DOMAIN branches0 :
              n \in DOMAIN branches /\ branches[n] = branches0[n]

\* C30: when Overwrite is chosen while HEAD is detached the import ends with the
\* detached-HEAD error, before any branch is deleted and before anything is
\* fetched, although the conflicting branch is not checked out.
C30_DetachedOverwriteFails ==
    (Chose("overwrite") /\ ~head0.sym /\ pc \notin {"conflict", "ds_current"})
        => /\ pc = "done"
           /\ result = "HEAD is detached, not on a branch"
           /\ \A i \in 1..Len(log) : log[i].cmd \notin {"branch -D", "fetch", "checkout"}
           /\ RefsUntouched

C30_Witness ==
    /\ Chose("overwrite")
    /\ ~head0.sym
    /\ ~CheckedOut(branchName)
    /\ branchName \in DOMAIN branches
    /\ result = "HEAD is detached, not on a branch"

====
